---------------------------- MODULE Spec2Model ----------------------------
(***************************************************************************)
(* Invoice lifecycle of OpalPixel: numbering, totals, Pending -> Paid,     *)
(* receipt issuance, in the web-route variant (app/invoices/routes.py) and *)
(* the JSON API variant (app/api/invoices.py), over the MongoEngine        *)
(* documents of app/models.py.                                             *)
(*                                                                         *)
(* Every request is a process.  A request is cut into steps at its store   *)
(* calls (query, count, save, delete): each store call is atomic, and      *)
(* nothing else orders two requests.  Money is kept in whole units; the    *)
(* inputs are chosen so that subtotal * tax_rate / 100 is exact.           *)
(***************************************************************************)
EXTENDS Integers, Sequences, FiniteSets, TLC

\* ------------------------------------------------------------- bounds ---
MaxIds == 3            \* invoices ever inserted (ObjectIds handed out)
RaceIds == 2           \* invoices ever inserted while two requests race
SeqIds == 1            \* invoices ever inserted under the observed one-request load
MaxProcs == 2          \* requests in flight at the same time
NumReceiptNumbers == 2 \* size of the space uuid4().hex[:8] draws from

Procs == 1..MaxProcs
InvoiceIds == 1..MaxIds
ReceiptNumbers == 1..NumReceiptNumbers

\* ------------------------------------------------------------ inputs ---
Admin == "admin"
Identities == {"admin", "w1", "w2"}
Role(u) == IF u = Admin THEN "admin" ELSE "worker"

Years == {2025, 2026}
BadDate == 0 - 1       \* a due_date string strptime rejects
NoDate == 0            \* due_date omitted

TaxRates == {0, 10}

eService == [description |-> "Service", quantity |-> 2, unit_price |-> 100]
eBlank == [description |-> "", quantity |-> 2, unit_price |-> 5]
eSpace == [description |-> " ", quantity |-> 1, unit_price |-> 100]
eZeroQty == [description |-> "Widget", quantity |-> 0, unit_price |-> 5]
eValid == [description |-> "Valid", quantity |-> 3, unit_price |-> 10]

\* the lists of raw entries a caller supplies
RawItemLists == {<<>>, <<eService>>, <<eSpace>>, <<eZeroQty>>, <<eBlank, eZeroQty, eValid>>}

\* the client names a caller supplies: a name, empty, blank, absent
ClientNames == {"Acme", "", " ", "None"}

\* ----------------------------------------------------- document values ---
NoneStr == "None"      \* Python None in a string / ObjectId field
NoneNum == 0 - 1       \* Python None in a numeric field
NoNumber == [seq |-> <<>>, yy |-> NoneNum]   \* invoice_number is None

\* the contact fields a caller supplies: absent, given, blank
NoContact == [email |-> NoneStr, phone |-> NoneStr, address |-> NoneStr]
FullContact == [email |-> "a@acme.test", phone |-> "555", address |-> "1 Main St"]
BlankContact == [email |-> " ", phone |-> "", address |-> " "]
Contacts == {NoContact, FullContact, BlankContact}

\* the readings of datetime.utcnow() a workload may see
Clock == {1, 2}

VARIABLES
    invoices,   \* the invoices collection: _id -> stored document
    receipts,   \* the receipts collection
    users,      \* the users collection: the ids of the stored users
    nextId,     \* the next ObjectId of an inserted invoice
    pc,         \* where each request process stands
    req,        \* the request a process serves, or the response it gave
    issued      \* history: every (invoice id, invoice number) a Create persisted

vars == <<invoices, receipts, users, nextId, pc, req, issued>>

\* ------------------------------------------------------------ helpers ---
Put(f, k, v) == [x \in (DOMAIN f) \cup {k} |-> IF x = k THEN v ELSE f[x]]
Remove(f, k) == [x \in (DOMAIN f) \ {k} |-> f[x]]

\* str.strip() on the strings the model uses, then "or ''"
Strip(s) == IF s \in {"", " ", NoneStr} THEN "" ELSE s

\* (value or "").strip() or None
StripOrNone(s) == IF Strip(s) = "" THEN NoneStr ELSE s

\* strftime("%y")
YearSuffix(year) == year % 100

\* f"{sequence:04d}"
Pad4(n) == <<(n \div 1000) % 10, (n \div 100) % 10, (n \div 10) % 10, n % 10>>

format_invoice_number(sequence, year) ==
    [seq |-> Pad4(sequence), yy |-> YearSuffix(year)]

\* mutant: the count is not scoped to the year suffix
CountAllYears(yy) == Cardinality(DOMAIN invoices)

\* Invoice.objects(invoice_number__regex=f"^OPL-.*-{year_suffix}$").count()
MatchesYear(num, yy) == num # NoNumber /\ num.yy = yy
CountForYear(yy) ==
    Cardinality({i \in DOMAIN invoices : MatchesYear(invoices[i].invoice_number, yy)})

\* mutant: count instead of count + 1
generate_invoice_number_count(year) ==
    format_invoice_number(CountForYear(YearSuffix(year)), year)

generate_invoice_number(year) ==
    format_invoice_number(CountForYear(YearSuffix(year)) + 1, year)


\* ---------------------------------------------------- line-item totals ---
RECURSIVE Subtotal(_)
\* subtotal += line_total, over the retained items
Subtotal(items) ==
    IF items = <<>> THEN 0 ELSE Head(items).total + Subtotal(Tail(items))

\* mutant: the rate is divided as an integer before the product
TaxAmountIntegerRate(subtotal, tax_rate) == subtotal * (tax_rate \div 100)

\* subtotal * (tax_rate / 100.0); exact for the modelled inputs
TaxAmount(subtotal, tax_rate) == (subtotal * tax_rate) \div 100

MakeItem(desc, qty, price) ==
    [description |-> desc, quantity |-> qty, unit_price |-> price, total |-> qty * price]

RECURSIVE BuildItemsApi(_)
\* API loop: strip the description, drop the entry unless desc, qty > 0, price > 0
BuildItemsApi(raw) ==
    IF raw = <<>> THEN <<>>
    ELSE LET e == Head(raw)
             desc == Strip(e.description)
         IN  IF desc = "" \/ e.quantity <= 0 \/ e.unit_price <= 0
             THEN BuildItemsApi(Tail(raw))
             ELSE <<MakeItem(desc, e.quantity, e.unit_price)>> \o BuildItemsApi(Tail(raw))

RECURSIVE BuildItemsWeb(_)
\* form loop: keep every entry whose description is truthy
BuildItemsWeb(raw) ==
    IF raw = <<>> THEN <<>>
    ELSE LET e == Head(raw)
         IN  IF e.description = ""
             THEN BuildItemsWeb(Tail(raw))
             ELSE <<MakeItem(e.description, e.quantity, e.unit_price)>> \o BuildItemsWeb(Tail(raw))

\* ----------------------------------------------------------- documents ---
Fields == {"invoice_number", "client_name", "client_email", "client_phone",
           "client_address", "amount", "tax_rate", "tax_amount", "status",
           "date_created", "due_date", "user_id", "items"}

\* a field absent from the stored document
NoneOf(f) ==
    CASE f = "invoice_number" -> NoNumber
      [] f \in {"client_name", "client_email", "client_phone", "client_address",
                "status", "user_id"} -> NoneStr
      [] f = "items" -> <<>>
      [] OTHER -> NoneNum

NoDoc == [f \in Fields |-> NoneOf(f)]

\* Invoice(...) as built by both create handlers
NewInvoice(name, contact, total, rate, tax, due, who, number, items, now) ==
    [invoice_number |-> number, client_name |-> name,
     client_email |-> contact.email, client_phone |-> contact.phone,
     client_address |-> contact.address, amount |-> total,
     tax_rate |-> rate, tax_amount |-> tax, status |-> "Pending",
     date_created |-> now, due_date |-> due, user_id |-> who, items |-> items]

\* a stored document as MongoEngine hands it out: field defaults fill the gaps
Load(d) ==
    [d EXCEPT !.status = IF @ = NoneStr THEN "Pending" ELSE @,
              !.tax_rate = IF @ = NoneNum THEN 0 ELSE @,
              !.tax_amount = IF @ = NoneNum THEN 0 ELSE @]

\* Document.validate(): the required=True fields must not be None
Validate(d) ==
    /\ d.client_name # NoneStr
    /\ d.amount # NoneNum
    /\ d.status # NoneStr
    /\ d.user_id # NoneStr

\* unique=True on invoice_number: the index rejects a second document with the
\* same key (a missing number is the key null)
NumberTaken(number) == \E j \in DOMAIN invoices : invoices[j].invoice_number = number

\* the fields MongoEngine marks as changed between load and save
Changed(loaded, d) == {f \in Fields : d[f] # loaded[f]}

\* update_one({_id}, {$set: changed}, upsert=True) on the stored document
Merged(stored, loaded, d) ==
    [f \in Fields |-> IF f \in Changed(loaded, d) THEN d[f] ELSE stored[f]]

\* ------------------------------------------------------------ requests ---
\* what the caller of an Edit sent: the fields present in the JSON body or the
\* form, the item entries and the tax rate
NoBody == [keys |-> {}, raw |-> <<>>, rate |-> NoneNum]

Request(op, variant, who, inv, loaded, d, code) ==
    [op |-> op, variant |-> variant, who |-> who, inv |-> inv,
     loaded |-> loaded, doc |-> d, code |-> code, body |-> NoBody]

IdleReq == Request("none", "none", NoneStr, 0, NoDoc, NoDoc, "none")

\* the handler returns: what the caller sees (a workload that does not watch
\* the responses keeps none)
Respond(p, W, op, variant, who, inv, code) ==
    IF W.observe
    THEN /\ pc' = [pc EXCEPT ![p] = "respond"]
         /\ req' = [req EXCEPT ![p] = Request(op, variant, who, inv, NoDoc, NoDoc, code)]
    ELSE /\ pc' = [pc EXCEPT ![p] = "idle"]
         /\ req' = [req EXCEPT ![p] = IdleReq]

\* the handler goes on to its next store call
Continue(p, label, op, variant, who, inv, loaded, d) ==
    /\ pc' = [pc EXCEPT ![p] = label]
    /\ req' = [req EXCEPT ![p] = Request(op, variant, who, inv, loaded, d, "none")]

\* an edit handler goes on to invoice.save()
ContinueEdit(p, variant, who, inv, loaded, d, body) ==
    /\ pc' = [pc EXCEPT ![p] = "edit_save"]
    /\ req' = [req EXCEPT ![p] = [Request("edit", variant, who, inv, loaded, d, "none")
                                    EXCEPT !.body = body]]

\* mutant: the ownership test without the role test
DeniedAdminToo(who, d) == d.user_id # who

\* current_user.role != "admin" and invoice.user_id != current_user.id
Denied(who, d) == Role(who) # "admin" /\ d.user_id # who

Init ==
    /\ invoices = <<>>
    /\ receipts = {}
    /\ users = Identities
    /\ nextId = 1
    /\ issued = {}
    /\ pc = [p \in Procs |-> "idle"]
    /\ req = [p \in Procs |-> IdleReq]

\* a worker process is free to take the next request
Ready(p) == pc[p] \in {"idle", "respond"}

\* _get_invoice: Invoice.objects(id=invoice_id).first()
Found(inv) == inv \in DOMAIN invoices

\* ------------------------------------------------------------- Create ---
\* POST /api/invoices up to and including generate_invoice_number (the count)
ApiCreateBegin(p, W) ==
    /\ Ready(p)
    /\ nextId + Cardinality({q \in Procs : pc[q] = "create_save"}) <= W.maxId
    /\ \E who \in W.who \cap users, name \in W.names, contact \in W.contacts,
          raw \in W.lists, due \in W.dues, rate \in W.rates, now \in W.clock :
         LET items == BuildItemsApi(raw)
             subtotal == Subtotal(items)
             tax == TaxAmount(subtotal, rate)
         IN  IF Strip(name) = ""
             THEN Respond(p, W, "create", "api", who, 0, "NameRequired")
             ELSE IF raw = <<>>
             THEN Respond(p, W, "create", "api", who, 0, "ItemRequired")
             ELSE IF due = BadDate
             THEN Respond(p, W, "create", "api", who, 0, "BadDate")
             ELSE IF items = <<>>
             THEN Respond(p, W, "create", "api", who, 0, "NoValidItems")
             ELSE \E year \in (IF due = NoDate THEN W.years ELSE {due}) :
                    Continue(p, "create_save", "create", "api", who, 0, NoDoc,
                             NewInvoice(Strip(name),
                                        [f \in DOMAIN contact |-> StripOrNone(contact[f])],
                                        subtotal + tax, rate, tax, year, who,
                                        generate_invoice_number(year), items, now))
    /\ UNCHANGED <<invoices, receipts, users, nextId, issued>>

\* POST /create-invoice up to and including generate_invoice_number (the count)
WebCreateBegin(p, W) ==
    /\ Ready(p)
    /\ nextId + Cardinality({q \in Procs : pc[q] = "create_save"}) <= W.maxId
    /\ \E who \in W.who \cap users, name \in W.names, contact \in W.contacts,
          raw \in W.lists, due \in W.dues, rate \in W.rates, now \in W.clock :
         LET items == BuildItemsWeb(raw)
             subtotal == Subtotal(items)
             tax == TaxAmount(subtotal, rate)
         IN  IF due = BadDate
             THEN Respond(p, W, "create", "web", who, 0, "ServerError")
             ELSE \E year \in (IF due = NoDate THEN W.years ELSE {due}) :
                    Continue(p, "create_save", "create", "web", who, 0, NoDoc,
                             NewInvoice(name, contact, subtotal + tax, rate, tax, year, who,
                                        generate_invoice_number(year), items, now))
    /\ UNCHANGED <<invoices, receipts, users, nextId, issued>>

\* mutant: the collection has no unique index on invoice_number
InsertAcceptedNoIndex(d) == TRUE

\* the insert the unique index on invoice_number accepts or rejects
InsertAccepted(d) == ~NumberTaken(d.invoice_number)

\* invoice.save() of a new document
CreateSave(p, W) ==
    /\ pc[p] = "create_save"
    /\ LET r == req[p]
       IN  IF ~Validate(r.doc)
           THEN /\ Respond(p, W, "create", r.variant, r.who, 0, "ServerError")
                /\ UNCHANGED <<invoices, receipts, users, nextId, issued>>
           ELSE IF ~InsertAccepted(r.doc)
           THEN /\ Respond(p, W, "create", r.variant, r.who, 0, "NotUnique")
                /\ UNCHANGED <<invoices, receipts, users, nextId, issued>>
           ELSE /\ invoices' = Put(invoices, nextId, r.doc)
                /\ nextId' = nextId + 1
                /\ issued' = issued \cup {[id |-> nextId, number |-> r.doc.invoice_number]}
                /\ Respond(p, W, "create", r.variant, r.who, nextId, "Created")
                /\ UNCHANGED <<receipts, users>>

\* --------------------------------------------------------------- View ---
\* GET /invoice/<id> and GET /api/invoices/<id>
View(p, W) ==
    /\ Ready(p)
    /\ \E who \in W.who \cap users, inv \in 1..W.maxId, variant \in W.variants :
         IF ~Found(inv)
         THEN Respond(p, W, "view", variant, who, inv, "NotFound")
         ELSE IF Denied(who, Load(invoices[inv]))
         THEN Respond(p, W, "view", variant, who, inv, "AccessDenied")
         ELSE Respond(p, W, "view", variant, who, inv, "Ok")
    /\ UNCHANGED <<invoices, receipts, users, nextId, issued>>

\* ------------------------------------------------- save of a loaded doc ---
\* invoice.save() raises: validation first, then the upsert against the index
SaveRejected(inv, loaded, d) ==
    \/ ~Validate(d)
    \/ /\ Changed(loaded, d) # {}
       /\ ~Found(inv)
       /\ NumberTaken(Merged(NoDoc, loaded, d).invoice_number)

\* the collection after an accepted invoice.save(): only the changed fields are
\* written; nothing changed, nothing written; a vanished _id is upserted
AfterSave(inv, loaded, d) ==
    IF Changed(loaded, d) = {}
    THEN invoices
    ELSE Put(invoices, inv, Merged(IF Found(inv) THEN invoices[inv] ELSE NoDoc, loaded, d))

\* ---------------------------------------------------- the status tests ---
\* mutant: the edit handlers do not test the status
EditBlockedNever(d) == FALSE

\* update_invoice / edit: if invoice.status == "Paid"
EditBlocked(d) == d.status = "Paid"

\* mutant: delete_invoice does not test the status
DeleteBlockedNever(d) == FALSE

\* delete_invoice: if invoice.status == "Paid"
DeleteBlocked(d) == d.status = "Paid"

\* mutant: the pay handlers do not test the status
AlreadyPaidNever(d) == FALSE

\* pay_invoice: if invoice.status == "Paid"; pay: if invoice.status != "Paid"
AlreadyPaid(d) == d.status = "Paid"

\* --------------------------------------------------------------- Edit ---
\* mutant: a new tax rate is stored without recomputing the totals
RateOnlyNoRecompute(d, rate) == [d EXCEPT !.tax_rate = rate]

\* update_invoice, elif "tax_rate" in data: recalculate with the existing items
RateOnly(d, rate) ==
    [d EXCEPT !.tax_rate = rate,
              !.tax_amount = TaxAmount(Subtotal(d.items), rate),
              !.amount = Subtotal(d.items) + TaxAmount(Subtotal(d.items), rate)]

\* the in-memory invoice after update_invoice applied the JSON body
ApiPatched(loaded, keys, name, contact, due, rate, raw) ==
    LET named == IF "client_name" \in keys /\ Strip(name) # ""
                 THEN [loaded EXCEPT !.client_name = Strip(name)] ELSE loaded
        mailed == IF "client_email" \in keys
                  THEN [named EXCEPT !.client_email = StripOrNone(contact.email)] ELSE named
        phoned == IF "client_phone" \in keys
                  THEN [mailed EXCEPT !.client_phone = StripOrNone(contact.phone)] ELSE mailed
        housed == IF "client_address" \in keys
                  THEN [phoned EXCEPT !.client_address = StripOrNone(contact.address)]
                  ELSE phoned
        dated == IF "due_date" \in keys THEN [housed EXCEPT !.due_date = due] ELSE housed
        items == BuildItemsApi(raw)
        newRate == IF "tax_rate" \in keys THEN rate ELSE loaded.tax_rate
    IN  IF "items" \in keys
        THEN [dated EXCEPT !.items = items,
                           !.tax_rate = newRate,
                           !.tax_amount = TaxAmount(Subtotal(items), newRate),
                           !.amount = Subtotal(items) + TaxAmount(Subtotal(items), newRate)]
        ELSE IF "tax_rate" \in keys
        THEN RateOnly(dated, rate)
        ELSE dated

\* the JSON body of update_invoice: data, data["items"], data["tax_rate"]
ApiBody(keys, rate, raw) ==
    [keys |-> keys,
     raw |-> IF "items" \in keys THEN raw ELSE <<>>,
     rate |-> IF "tax_rate" \in keys THEN rate ELSE NoneNum]

\* PUT/PATCH /api/invoices/<id> up to invoice.save()
ApiUpdateBegin(p, W) ==
    /\ Ready(p)
    /\ \E who \in W.who \cap users, inv \in 1..W.maxId :
         IF ~Found(inv)
         THEN Respond(p, W, "edit", "api", who, inv, "NotFound")
         ELSE LET loaded == Load(invoices[inv])
              IN  IF Denied(who, loaded)
                  THEN Respond(p, W, "edit", "api", who, inv, "AccessDenied")
                  ELSE IF EditBlocked(loaded)
                  THEN Respond(p, W, "edit", "api", who, inv, "CannotEditPaid")
                  ELSE \E keys \in W.keys, name \in W.names, contact \in W.contacts,
                          due \in W.dues, rate \in W.rates, raw \in W.lists :
                         IF "due_date" \in keys /\ due \in {BadDate, NoDate}
                         THEN Respond(p, W, "edit", "api", who, inv, "BadDate")
                         ELSE ContinueEdit(p, "api", who, inv, loaded,
                                           ApiPatched(loaded, keys, name, contact, due, rate, raw),
                                           ApiBody(keys, rate, raw))
    /\ UNCHANGED <<invoices, receipts, users, nextId, issued>>

\* the in-memory invoice after the edit form was applied
WebPatched(loaded, name, contact, due, rate, raw) ==
    LET items == BuildItemsWeb(raw)
    IN  [loaded EXCEPT !.client_name = name,
                       !.client_email = contact.email,
                       !.client_phone = contact.phone,
                       !.client_address = contact.address,
                       !.due_date = IF due = NoDate THEN @ ELSE due,
                       !.items = items,
                       !.tax_rate = rate,
                       !.tax_amount = TaxAmount(Subtotal(items), rate),
                       !.amount = Subtotal(items) + TaxAmount(Subtotal(items), rate)]

\* the form of edit: request.form.get(...) is None for a field the form does
\* not carry, getlist(...) is empty without item rows, and a tax rate that is
\* absent reads as 0
WebBody(name, contact, due, rate, rateSent, raw) ==
    [keys |-> {f \in {"client_name"} : name # NoneStr}
                \cup {f \in {"client_email"} : contact.email # NoneStr}
                \cup {f \in {"client_phone"} : contact.phone # NoneStr}
                \cup {f \in {"client_address"} : contact.address # NoneStr}
                \cup {f \in {"due_date"} : due # NoDate}
                \cup {f \in {"tax_rate"} : rateSent}
                \cup {f \in {"items"} : raw # <<>>},
     raw |-> raw,
     rate |-> IF rateSent THEN rate ELSE NoneNum]

\* GET and POST /invoice/<id>/edit up to invoice.save()
WebEditBegin(p, W) ==
    /\ Ready(p)
    /\ \E who \in W.who \cap users, inv \in 1..W.maxId, method \in {"GET", "POST"} :
         IF ~Found(inv)
         THEN Respond(p, W, "edit", "web", who, inv, "NotFound")
         ELSE LET loaded == Load(invoices[inv])
              IN  IF Denied(who, loaded)
                  THEN Respond(p, W, "edit", "web", who, inv, "AccessDenied")
                  ELSE IF EditBlocked(loaded)
                  THEN Respond(p, W, "edit", "web", who, inv, "CannotEditPaid")
                  ELSE IF method = "GET"
                  THEN Respond(p, W, "edit", "web", who, inv, "Form")
                  ELSE \E name \in W.names, contact \in W.contacts, due \in W.dues,
                          rate \in W.rates, raw \in W.lists :
                         IF due = BadDate
                         THEN Respond(p, W, "edit", "web", who, inv, "ServerError")
                         ELSE \E rateSent \in (IF rate = 0 THEN BOOLEAN ELSE {TRUE}) :
                                ContinueEdit(p, "web", who, inv, loaded,
                                             WebPatched(loaded, name, contact, due, rate, raw),
                                             WebBody(name, contact, due, rate, rateSent, raw))
    /\ UNCHANGED <<invoices, receipts, users, nextId, issued>>

\* the edit handler returns after its save: the answer to the body it was sent
RespondEdit(p, W, variant, who, inv, body) ==
    IF W.observe
    THEN /\ pc' = [pc EXCEPT ![p] = "respond"]
         /\ req' = [req EXCEPT ![p] = [Request("edit", variant, who, inv, NoDoc, NoDoc, "Updated")
                                         EXCEPT !.body = body]]
    ELSE /\ pc' = [pc EXCEPT ![p] = "idle"]
         /\ req' = [req EXCEPT ![p] = IdleReq]

\* invoice.save() of the edited document
EditSave(p, W) ==
    /\ pc[p] = "edit_save"
    /\ LET r == req[p]
       IN  IF SaveRejected(r.inv, r.loaded, r.doc)
           THEN /\ Respond(p, W, "edit", r.variant, r.who, r.inv, "ServerError")
                /\ UNCHANGED invoices
           ELSE /\ invoices' = AfterSave(r.inv, r.loaded, r.doc)
                /\ RespondEdit(p, W, r.variant, r.who, r.inv, r.body)
    /\ UNCHANGED <<receipts, users, nextId, issued>>

\* ------------------------------------------------------------- Delete ---
\* DELETE /api/invoices/<id> up to the first store write
ApiDeleteBegin(p, W) ==
    /\ Ready(p)
    /\ \E who \in W.who \cap users, inv \in 1..W.maxId :
         IF ~Found(inv)
         THEN Respond(p, W, "delete", "api", who, inv, "NotFound")
         ELSE LET loaded == Load(invoices[inv])
              IN  IF Denied(who, loaded)
                  THEN Respond(p, W, "delete", "api", who, inv, "AccessDenied")
                  ELSE IF DeleteBlocked(loaded)
                  THEN Respond(p, W, "delete", "api", who, inv, "CannotDeletePaid")
                  ELSE Continue(p, "delete_receipts", "delete", "api", who, inv, NoDoc, NoDoc)
    /\ UNCHANGED <<invoices, receipts, users, nextId, issued>>

\* Receipt.objects(invoice_id=invoice.id).delete()
DeleteReceipts(p, W) ==
    /\ pc[p] = "delete_receipts"
    /\ receipts' = {r \in receipts : r.invoice_id # req[p].inv}
    /\ pc' = [pc EXCEPT ![p] = "delete_invoice"]
    /\ UNCHANGED <<invoices, users, nextId, req, issued>>

\* invoice.delete()
DeleteInvoice(p, W) ==
    /\ pc[p] = "delete_invoice"
    /\ invoices' = IF Found(req[p].inv) THEN Remove(invoices, req[p].inv) ELSE invoices
    /\ Respond(p, W, "delete", "api", req[p].who, req[p].inv, "Deleted")
    /\ UNCHANGED <<receipts, users, nextId, issued>>

\* ---------------------------------------------------------------- Pay ---
\* the status test of the two pay handlers: the API answers 400 on a paid
\* invoice, the web route skips the payment and redirects
PaidAnswer(variant) == IF variant = "api" THEN "AlreadyPaid" ELSE "Redirect"

\* mutant: the payment also stamps the creation time anew
MarkPaidRestamped(d) == [d EXCEPT !.status = "Paid", !.date_created = 0]

\* invoice.status = "Paid"
MarkPaid(d) == [d EXCEPT !.status = "Paid"]

\* POST /api/invoices/<id>/pay and POST /pay-invoice/<id> up to invoice.save()
PayBegin(p, W) ==
    /\ Ready(p)
    /\ \E who \in W.who \cap users, inv \in 1..W.maxId, variant \in W.variants :
         IF ~Found(inv)
         THEN Respond(p, W, "pay", variant, who, inv, "NotFound")
         ELSE LET loaded == Load(invoices[inv])
              IN  IF Denied(who, loaded)
                  THEN Respond(p, W, "pay", variant, who, inv, "AccessDenied")
                  ELSE IF AlreadyPaid(loaded)
                  THEN Respond(p, W, "pay", variant, who, inv, PaidAnswer(variant))
                  ELSE Continue(p, "pay_status", "pay", variant, who, inv, loaded,
                                MarkPaid(loaded))
    /\ UNCHANGED <<invoices, receipts, users, nextId, issued>>

\* invoice.status = "Paid"; invoice.save()
PaySaveStatus(p, W) ==
    /\ pc[p] = "pay_status"
    /\ LET r == req[p]
       IN  IF SaveRejected(r.inv, r.loaded, r.doc)
           THEN /\ Respond(p, W, "pay", r.variant, r.who, r.inv, "ServerError")
                /\ UNCHANGED invoices
           ELSE /\ invoices' = AfterSave(r.inv, r.loaded, r.doc)
                /\ pc' = [pc EXCEPT ![p] = "pay_receipt"]
                /\ UNCHANGED req
    /\ UNCHANGED <<receipts, users, nextId, issued>>

\* Receipt(invoice_id, amount_paid=invoice.amount, receipt_number)
NewReceipt(inv, d, number) ==
    [invoice_id |-> inv, amount_paid |-> d.amount, receipt_number |-> number]

\* unique=True on receipt_number
ReceiptNumberTaken(number) == \E r \in receipts : r.receipt_number = number

\* receipt.save() with a freshly drawn REC- number
PaySaveReceipt(p, W) ==
    /\ pc[p] = "pay_receipt"
    /\ \E number \in ReceiptNumbers :
         LET r == req[p]
         IN  IF ReceiptNumberTaken(number)
             THEN /\ Respond(p, W, "pay", r.variant, r.who, r.inv, "ServerError")
                  /\ UNCHANGED receipts
             ELSE /\ receipts' = receipts \cup {NewReceipt(r.inv, r.doc, number)}
                  /\ Respond(p, W, "pay", r.variant, r.who, r.inv, "Paid")
    /\ UNCHANGED <<invoices, users, nextId, issued>>

\* -------------------------------------------------------------- Users ---
\* DELETE /api/users/<user_id>: admin_token_required, then delete_user
DeleteUser(p, W) ==
    /\ Ready(p)
    /\ \E who \in W.who \cap users, target \in Identities :
         IF Role(who) # "admin"
         THEN /\ Respond(p, W, "delete_user", "api", who, 0, "AdminRequired")
              /\ UNCHANGED users
         ELSE IF target \notin users
         THEN /\ Respond(p, W, "delete_user", "api", who, 0, "NotFound")
              /\ UNCHANGED users
         ELSE IF target = who
         THEN /\ Respond(p, W, "delete_user", "api", who, 0, "CannotDeleteSelf")
              /\ UNCHANGED users
         ELSE /\ users' = users \ {target}
              /\ Respond(p, W, "delete_user", "api", who, 0, "Deleted")
    /\ UNCHANGED <<invoices, receipts, nextId, issued>>

\* ---------------------------------------------------- specifications ---
\* a workload: which processes serve requests and what the callers send
Workload(procs, maxId, observe, who, years, dues, rates, lists, names, contacts, keys, variants, clock) ==
    [procs |-> procs, maxId |-> maxId, observe |-> observe, who |-> who, years |-> years,
     dues |-> dues, rates |-> rates, lists |-> lists, names |-> names,
     contacts |-> contacts, keys |-> keys, variants |-> variants, clock |-> clock]

Begin(p, W) ==
    \/ ApiCreateBegin(p, W)
    \/ WebCreateBegin(p, W)
    \/ View(p, W)
    \/ ApiUpdateBegin(p, W)
    \/ WebEditBegin(p, W)
    \/ ApiDeleteBegin(p, W)
    \/ PayBegin(p, W)

Step(p, W) ==
    \/ CreateSave(p, W)
    \/ EditSave(p, W)
    \/ DeleteReceipts(p, W)
    \/ DeleteInvoice(p, W)
    \/ PaySaveStatus(p, W)
    \/ PaySaveReceipt(p, W)

NextOf(W) == \E p \in W.procs : Begin(p, W) \/ Step(p, W)

\* one request at a time; every handler; the responses are watched
SeqLoad ==
    Workload({1}, SeqIds, TRUE, Identities, {2026}, {2026, BadDate}, TaxRates,
             {<<eService>>}, {"Acme"}, {NoContact}, {{}, {"tax_rate"}}, {"web", "api"}, {1})

Next == NextOf(SeqLoad)

Spec == Init /\ [][Next]_vars

\* two requests in flight; one identity; the responses are not watched
RaceLoad ==
    Workload(Procs, RaceIds, FALSE, {"admin"}, {2026}, {2026}, TaxRates,
             {<<eService>>}, {"Acme"}, {NoContact}, {{"tax_rate"}}, {"web", "api"}, {1})

RaceStep(p, W) ==
    \/ ApiCreateBegin(p, W)
    \/ WebCreateBegin(p, W)
    \/ ApiUpdateBegin(p, W)
    \/ WebEditBegin(p, W)
    \/ ApiDeleteBegin(p, W)
    \/ PayBegin(p, W)
    \/ Step(p, W)

RaceNext == \E p \in RaceLoad.procs : RaceStep(p, RaceLoad)

RaceSpec == Init /\ [][RaceNext]_vars

\* one request at a time, no Delete; two years; three invoices
NumberLoad ==
    Workload({1}, MaxIds, FALSE, {"admin"}, Years, Years \cup {NoDate}, {0},
             {<<eService>>}, {"Acme"}, {NoContact}, {{"due_date"}}, {"web", "api"}, {1})

NumberStep(p, W) ==
    \/ ApiCreateBegin(p, W)
    \/ WebCreateBegin(p, W)
    \/ CreateSave(p, W)
    \/ ApiUpdateBegin(p, W)
    \/ EditSave(p, W)
    \/ PayBegin(p, W)
    \/ PaySaveStatus(p, W)
    \/ PaySaveReceipt(p, W)

NumberNext == \E p \in NumberLoad.procs : NumberStep(p, NumberLoad)

NumberSpec == Init /\ [][NumberNext]_vars

\* one request at a time; Creates and Deletes only; two years
ChurnLoad ==
    Workload({1}, MaxIds, FALSE, {"admin"}, Years, Years, TaxRates,
             {<<eService>>}, {"Acme"}, {NoContact}, {{}}, {"api"}, {1})

ChurnStep(p, W) ==
    \/ ApiCreateBegin(p, W)
    \/ WebCreateBegin(p, W)
    \/ CreateSave(p, W)
    \/ ApiDeleteBegin(p, W)
    \/ DeleteReceipts(p, W)
    \/ DeleteInvoice(p, W)

ChurnNext == \E p \in ChurnLoad.procs : ChurnStep(p, ChurnLoad)

ChurnSpec == Init /\ [][ChurnNext]_vars

\* one request at a time; Create and Edit with every supplied name and item
\* list; the responses are watched
FormLoad ==
    Workload({1}, SeqIds, TRUE, {"admin"}, {2026}, {2026}, TaxRates,
             RawItemLists, ClientNames, {NoContact},
             {{"client_name"}, {"items"}, {"tax_rate"}}, {"web", "api"}, {1})

FormStep(p, W) ==
    \/ ApiCreateBegin(p, W)
    \/ WebCreateBegin(p, W)
    \/ CreateSave(p, W)
    \/ ApiUpdateBegin(p, W)
    \/ WebEditBegin(p, W)
    \/ EditSave(p, W)

FormNext == \E p \in FormLoad.procs : FormStep(p, FormLoad)

FormSpec == Init /\ [][FormNext]_vars

\* two Edits in flight on one invoice: one supplies items, one a tax rate
EditRaceLoad ==
    Workload(Procs, SeqIds, FALSE, {"admin"}, {2026}, {2026}, TaxRates,
             {<<eService>>, <<eValid>>}, {"Acme"}, {NoContact}, {{"items"}, {"tax_rate"}},
             {"api"}, {1})

EditRaceStep(p, W) ==
    \/ ApiCreateBegin(p, W)
    \/ WebCreateBegin(p, W)
    \/ CreateSave(p, W)
    \/ ApiUpdateBegin(p, W)
    \/ WebEditBegin(p, W)
    \/ EditSave(p, W)

EditRaceNext == \E p \in EditRaceLoad.procs : EditRaceStep(p, EditRaceLoad)

EditRaceSpec == Init /\ [][EditRaceNext]_vars

\* one request at a time; every handler; two invoices; the responses are
\* watched
LedgerLoad ==
    Workload({1}, RaceIds, TRUE, {"admin"}, {2026}, {2026, BadDate}, TaxRates,
             {<<eService>>}, {"Acme"}, {NoContact}, {{"tax_rate"}}, {"web", "api"}, {1})

LedgerNext == NextOf(LedgerLoad)

LedgerSpec == Init /\ [][LedgerNext]_vars

\* one request at a time; every invoice handler and the deletion of users
UserLoad ==
    Workload({1}, SeqIds, TRUE, Identities, {2026}, {2026}, {0},
             {<<eService>>}, {"Acme"}, {NoContact}, {{}}, {"api"}, {1})

UserStep(p, W) == Begin(p, W) \/ Step(p, W) \/ DeleteUser(p, W)

UserNext == \E p \in UserLoad.procs : UserStep(p, UserLoad)

UserSpec == Init /\ [][UserNext]_vars

\* one request at a time; every handler; the end-to-end inputs of the spec
\* (client Acme, due 2026, tax rate 5, one item Service 2 x 100)
ScenarioLoad ==
    Workload({1}, SeqIds, TRUE, {"admin", "w1"}, {2026}, {2026}, {5, 10},
             {<<eService>>}, {"Acme"}, {NoContact}, {{"tax_rate"}}, {"web", "api"}, {1})

ScenarioNext == NextOf(ScenarioLoad)

ScenarioSpec == Init /\ [][ScenarioNext]_vars

\* two requests in flight; API Creates and Deletes only; one year; enough
\* ids for two Creates to race after two Creates and a Delete
CreateRaceIds == MaxIds + 1

CreateRaceLoad ==
    Workload(Procs, CreateRaceIds, FALSE, {"admin"}, {2026}, {2026}, {0},
             {<<eService>>}, {"Acme"}, {NoContact}, {{}}, {"api"}, {1})

CreateRaceStep(p, W) ==
    \/ ApiCreateBegin(p, W)
    \/ CreateSave(p, W)
    \/ ApiDeleteBegin(p, W)
    \/ DeleteReceipts(p, W)
    \/ DeleteInvoice(p, W)

CreateRaceNext == \E p \in CreateRaceLoad.procs : CreateRaceStep(p, CreateRaceLoad)

CreateRaceSpec == Init /\ [][CreateRaceNext]_vars

\* one request at a time; Create and Edit of one invoice with bodies that
\* carry or omit each editable field; the responses are watched
PatchKeys ==
    {{}, {"client_name"}, {"client_email"}, {"client_phone", "client_address"},
     {"due_date"}, {"items"}, {"tax_rate"}, {"items", "tax_rate"}}

PatchLoad ==
    Workload({1}, SeqIds, TRUE, {"admin"}, Years, {2026, NoDate}, TaxRates,
             {<<>>, <<eService>>, <<eZeroQty>>, <<eZeroQty, eValid>>}, {"Acme", NoneStr},
             {NoContact, FullContact}, PatchKeys, {"web", "api"}, {1})

PatchNext == \E p \in PatchLoad.procs : FormStep(p, PatchLoad)

PatchSpec == Init /\ [][PatchNext]_vars

\* the same load on the API variant alone
ApiPatchStep(p, W) ==
    \/ ApiCreateBegin(p, W)
    \/ CreateSave(p, W)
    \/ ApiUpdateBegin(p, W)
    \/ EditSave(p, W)

ApiPatchNext == \E p \in PatchLoad.procs : ApiPatchStep(p, PatchLoad)

ApiPatchSpec == Init /\ [][ApiPatchNext]_vars

\* one request at a time; Create, Edit and Pay; the owner and the admin act on
\* invoices that differ in creation time and contact fields; the responses
\* are watched
FrameLoad ==
    Workload({1}, SeqIds, TRUE, {"admin", "w1"}, {2026}, {2026}, TaxRates,
             {<<eService>>}, {"Acme"}, {NoContact, FullContact},
             {{"tax_rate"}}, {"web", "api"}, Clock)

FrameStep(p, W) ==
    \/ ApiCreateBegin(p, W)
    \/ WebCreateBegin(p, W)
    \/ CreateSave(p, W)
    \/ ApiUpdateBegin(p, W)
    \/ WebEditBegin(p, W)
    \/ EditSave(p, W)
    \/ PayBegin(p, W)
    \/ PaySaveStatus(p, W)
    \/ PaySaveReceipt(p, W)

FrameNext == \E p \in FrameLoad.procs : FrameStep(p, FrameLoad)

FrameSpec == Init /\ [][FrameNext]_vars

\* ============================================================= claims ===
HasReceipt(i) == \E r \in receipts : r.invoice_id = i
ReceiptsOf(i) == {r \in receipts : r.invoice_id = i}
StoreUnchanged ==
    invoices' = invoices /\ receipts' = receipts /\ users' = users /\ nextId' = nextId

\* process p takes a request for an existing invoice in this step
Takes(p, op) ==
    /\ Ready(p)
    /\ pc'[p] # "idle"
    /\ req'[p].op = op
    /\ Found(req'[p].inv)

\* process p answers the request in the same step with this code
Answers(p, code) == pc'[p] = "respond" /\ req'[p].code = code

\* the identity is the owner of the invoice or an admin
OwnerOrAdmin(who, i) == who = Admin \/ invoices[i].user_id = who

\* C1: in every reachable state, under any interleaving of Create, Edit, Pay
\* and Delete (two requests in flight, Creates that count before either
\* saves included), no two persisted invoices carry the same invoice_number.
C1_UniqueInvoiceNumber ==
    \A i, j \in DOMAIN invoices :
        i # j => invoices[i].invoice_number # invoices[j].invoice_number

\* a Create is about to save a number another Create has persisted meanwhile
C1_Witness ==
    \E p \in Procs :
        /\ pc[p] = "create_save"
        /\ NumberTaken(req[p].doc.invoice_number)
        /\ req[p].doc.invoice_number # NoNumber

\* C2: an Edit (web route or API) of an invoice whose persisted status is
\* Paid, by its owner or an admin, answers 'cannot edit a paid invoice' and
\* leaves the store as it was; no step changes a field or an item of an
\* invoice whose persisted status is Paid.
C2_PaidEditRejected ==
    [][/\ \A p \in Procs :
            (/\ Takes(p, "edit")
             /\ invoices[req'[p].inv].status = "Paid"
             /\ OwnerOrAdmin(req'[p].who, req'[p].inv))
            => (Answers(p, "CannotEditPaid") /\ StoreUnchanged)
       /\ \A i \in DOMAIN invoices :
            (invoices[i].status = "Paid" /\ i \in DOMAIN invoices')
            => invoices'[i] = invoices[i]]_vars

\* the owning worker's web Edit of a Paid invoice was rejected
C2_Witness ==
    \E p \in Procs :
        /\ pc[p] = "respond"
        /\ req[p].op = "edit"
        /\ req[p].variant = "web"
        /\ req[p].code = "CannotEditPaid"
        /\ req[p].who # Admin
        /\ Found(req[p].inv)
        /\ invoices[req[p].inv].user_id = req[p].who

\* C3: a Delete of an invoice whose persisted status is Paid, by its owner or
\* an admin, answers 'cannot delete a paid invoice' and leaves the invoice and
\* its Receipt persisted unchanged; an invoice that a step removes was not
\* Paid (requests one at a time).
C3_PaidDeleteRejected ==
    [][/\ \A p \in Procs :
            (/\ Takes(p, "delete")
             /\ invoices[req'[p].inv].status = "Paid"
             /\ OwnerOrAdmin(req'[p].who, req'[p].inv))
            => (Answers(p, "CannotDeletePaid") /\ StoreUnchanged)
       /\ \A i \in (DOMAIN invoices) \ (DOMAIN invoices') :
            invoices[i].status # "Paid"
       /\ \A p \in Procs :
            (pc[p] = "delete_invoice" /\ Answers(p, "Deleted"))
            => (Found(req[p].inv) /\ invoices[req[p].inv].status # "Paid")]_vars

\* the Delete of a Paid invoice that has its Receipt was rejected
C3_Witness ==
    \E p \in Procs :
        /\ pc[p] = "respond"
        /\ req[p].op = "delete"
        /\ req[p].code = "CannotDeletePaid"
        /\ Found(req[p].inv)
        /\ invoices[req[p].inv].status = "Paid"
        /\ HasReceipt(req[p].inv)

\* C4 (as claimed): in every reachable state, the state between the two
\* writes of Pay and the state after a failed receipt save included, a Receipt
\* referencing invoice i exists if and only if the persisted status of i is
\* Paid.
C4_ReceiptIffPaid ==
    \A i \in DOMAIN invoices : HasReceipt(i) <=> invoices[i].status = "Paid"

\* C5 (as claimed): at most one Receipt references an invoice in every
\* reachable state, also when two Pays of the same Pending invoice both read
\* Pending before either persists Paid.
C5_AtMostOneReceipt ==
    \A i \in InvoiceIds : Cardinality(ReceiptsOf(i)) <= 1

\* C6: a Pay of an invoice whose persisted status is Paid, by its owner or
\* an admin, creates no Receipt and changes no persisted state; the API
\* answers 'already paid', the web route redirects as after a payment.
C6_SecondPayNoOp ==
    [][\A p \in Procs :
          (/\ Takes(p, "pay")
           /\ invoices[req'[p].inv].status = "Paid"
           /\ OwnerOrAdmin(req'[p].who, req'[p].inv))
          => /\ StoreUnchanged
             /\ req'[p].variant = "api" => Answers(p, "AlreadyPaid")
             /\ req'[p].variant = "web" => Answers(p, "Redirect")]_vars

\* the web Pay of a Paid invoice was a no-op: the invoice has its one Receipt
C6_Witness ==
    \E p \in Procs :
        /\ pc[p] = "respond"
        /\ req[p].op = "pay"
        /\ req[p].variant = "web"
        /\ req[p].code = "Redirect"
        /\ Found(req[p].inv)
        /\ invoices[req[p].inv].status = "Paid"
        /\ Cardinality(ReceiptsOf(req[p].inv)) = 1

\* C7 (as claimed): a Receipt that a step saves carries the amount the
\* referenced invoice has in the store at that moment, also when an Edit of
\* the invoice runs beside the Pay; and no step changes the amount_paid of a
\* Receipt that exists.
C7_ReceiptSnapshotsAmount ==
    [][/\ \A r \in receipts' \ receipts :
            Found(r.invoice_id) => r.amount_paid = invoices[r.invoice_id].amount
       /\ \A r \in receipts :
            \A q \in receipts' :
                q.receipt_number = r.receipt_number => q = r]_vars

\* C8: for view, Edit, Delete and Pay (web and API) of an existing invoice: a
\* worker who is not invoice.user_id is answered with the authorization error
\* and the store is unchanged; an admin is never answered with it.
C8_AuthorizationBoundary ==
    [][\A p \in Procs : \A op \in {"view", "edit", "delete", "pay"} :
          Takes(p, op) =>
            LET who == req'[p].who
                owner == invoices[req'[p].inv].user_id
            IN  /\ (who # Admin /\ owner # who)
                     => (Answers(p, "AccessDenied") /\ StoreUnchanged)
                /\ who = Admin => ~Answers(p, "AccessDenied")]_vars

\* worker w2 was refused the web Pay of an invoice of worker w1
C8_Witness ==
    \E p \in Procs :
        /\ pc[p] = "respond"
        /\ req[p].op = "pay"
        /\ req[p].variant = "web"
        /\ req[p].code = "AccessDenied"
        /\ req[p].who = "w2"
        /\ Found(req[p].inv)
        /\ invoices[req[p].inv].user_id = "w1"

\* the invoices numbered for a year suffix
NumberedFor(yy) == {i \in DOMAIN invoices : invoices[i].invoice_number.yy = yy}

\* C9: with requests one at a time and no Delete, the k-th successful Create
\* for a year suffix (in call order, which is the order of the ids) is
\* assigned sequence k: 1, 2, ..., N without gap or repeat.
C9_SequentialNumbering ==
    \A y \in Years :
        \A i \in NumberedFor(YearSuffix(y)) :
            invoices[i].invoice_number.seq =
                Pad4(Cardinality({j \in NumberedFor(YearSuffix(y)) : j <= i}))

\* MaxIds Creates for the same year have all succeeded
C9_Witness ==
    \E y \in Years : Cardinality(NumberedFor(YearSuffix(y))) = MaxIds

\* C10: the sequence a Create assigns is 1 + the number of invoices whose
\* number carries the year suffix of the Create's due date, whatever the
\* other years hold (so the first invoice of year Y+1 gets sequence 1 for any
\* number of invoices of year Y), and the Create leaves the next number of
\* every other year as it was.
C10_YearScoped ==
    [][\A i \in (DOMAIN invoices') \ (DOMAIN invoices) :
          LET n == invoices'[i].invoice_number
          IN  /\ n.yy = YearSuffix(invoices'[i].due_date)
              /\ n.seq = Pad4(1 + Cardinality(NumberedFor(n.yy)))
              /\ \A y \in Years :
                    YearSuffix(y) # n.yy
                    => generate_invoice_number(y)' = generate_invoice_number(y)]_vars

\* two invoices numbered for 2025, then the first of 2026 with sequence 1
C10_Witness ==
    /\ Cardinality(NumberedFor(YearSuffix(2025))) = 2
    /\ \E i \in NumberedFor(YearSuffix(2026)) :
          /\ invoices[i].invoice_number.seq = Pad4(1)
          /\ \A j \in NumberedFor(YearSuffix(2025)) : j < i

\* C11 (as claimed): over the whole history of Creates and Deletes, an invoice
\* number that a Create once persisted for an invoice is never persisted for
\* a different invoice, also after the first invoice has been deleted.
C11_NumberNeverReassigned ==
    \A a, b \in issued : a.number = b.number => a.id = b.id

\* the filtering policy: an entry is kept when its description is not blank,
\* its quantity > 0 and its unit price > 0
Kept(e) == Strip(e.description) # "" /\ e.quantity > 0 /\ e.unit_price > 0

RECURSIVE Retained(_)
\* the entries of a list that the filtering policy keeps, in their order
Retained(entries) ==
    IF entries = <<>> THEN <<>>
    ELSE IF Kept(Head(entries))
    THEN <<Head(entries)>> \o Retained(Tail(entries))
    ELSE Retained(Tail(entries))

\* a document whose client name is empty or blank, or with no item that
\* survives the filtering
NamelessOrEmpty(d) == Strip(d.client_name) = "" \/ Retained(d.items) = <<>>

\* C12 (as claimed): a Create (web route or API) whose client name is empty
\* or blank, or whose supplied items do not survive the filtering, persists
\* no invoice and does not answer 'created'; every invoice a Create persists
\* has a non-blank client name and at least one item.
C12_CreateValidates ==
    [][/\ \A p \in Procs :
            (pc[p] = "create_save" /\ NamelessOrEmpty(req[p].doc))
            => (invoices' = invoices /\ req'[p].code # "Created")
       /\ \A i \in (DOMAIN invoices') \ (DOMAIN invoices) :
            ~NamelessOrEmpty(invoices'[i])]_vars

\* C13 (as claimed): the items a Create or an Edit (web route or API) stores
\* are entries with a non-blank description, quantity > 0 and unit price > 0
\* only: every other supplied entry is dropped and adds nothing to the
\* subtotal, the tax and the total.
C13_ItemsFiltered ==
    [][\A i \in DOMAIN invoices' :
          (i \notin DOMAIN invoices \/ invoices'[i].items # invoices[i].items)
          => LET d == invoices'[i]
             IN  /\ Retained(d.items) = d.items
                 /\ d.tax_amount = TaxAmount(Subtotal(Retained(d.items)), d.tax_rate)
                 /\ d.amount = Subtotal(Retained(d.items)) + d.tax_amount]_vars

\* C14 (as claimed): in every reachable state, states reached by interleaved
\* Edits of the same invoice included, every persisted invoice has
\* tax_amount = subtotal * tax_rate / 100 and amount = subtotal + tax_amount,
\* the subtotal being the sum of the totals of its persisted items.
C14_TotalsConsistent ==
    \A i \in DOMAIN invoices :
        LET d == invoices[i]
        IN  /\ d.tax_amount = TaxAmount(Subtotal(d.items), d.tax_rate)
            /\ d.amount = Subtotal(d.items) + d.tax_amount

\* the answers that report an error
ErrorCodes ==
    {"NotFound", "AccessDenied", "CannotEditPaid", "CannotDeletePaid", "AlreadyPaid",
     "NameRequired", "ItemRequired", "NoValidItems", "BadDate", "ServerError", "NotUnique"}

\* process p ends its request with an error in this step
EndsInError(p) ==
    /\ pc'[p] = "respond"
    /\ req'[p].code \in ErrorCodes
    /\ (pc[p] # "respond" \/ req[p] # req'[p])

\* C15 (as claimed): a Create, Edit, Delete or Pay that ends in an error
\* leaves the persisted users, invoices and receipts as they were before the
\* call (requests one at a time): the step that answers the error writes
\* nothing, and the invoice is still the one the request loaded.
C15_ErrorLeavesStore ==
    [][\A p \in Procs :
          EndsInError(p)
          => /\ StoreUnchanged
             /\ (pc[p] \in {"edit_save", "pay_status", "pay_receipt"} /\ Found(req[p].inv))
                  => Load(invoices'[req[p].inv]) = req[p].loaded]_vars

\* C16 (as claimed): under any interleaving, a Create inserts its invoice
\* with status Pending; the only change of a persisted status is Pending to
\* Paid, made by the status save of a Pay; an invoice whose persisted status
\* is Paid is persisted with status Paid in the next state, hence in every
\* later state; no invoice has status Overdue.
C16_StatusLifecycle ==
    [][/\ \A i \in (DOMAIN invoices') \ (DOMAIN invoices) :
            nextId' # nextId => invoices'[i].status = "Pending"
       /\ \A i \in (DOMAIN invoices) \cap (DOMAIN invoices') :
            invoices'[i].status # invoices[i].status
            => /\ Load(invoices[i]).status = "Pending"
               /\ invoices'[i].status = "Paid"
               /\ \E p \in Procs : pc[p] = "pay_status" /\ req[p].inv = i
       /\ \A i \in DOMAIN invoices :
            invoices[i].status = "Paid"
            => (i \in DOMAIN invoices' /\ invoices'[i].status = "Paid")
       /\ \A i \in DOMAIN invoices' : invoices'[i].status # "Overdue"]_vars

\* C17 (as claimed): a Create whose save the store rejects because the
\* invoice_number exists recomputes the number and tries again, so a Create
\* with a valid document never leaves its save without having persisted its
\* invoice: two Creates racing for the same year both persist one.
C17_CreateRetriesOnCollision ==
    [][\A p \in Procs :
          (pc[p] = "create_save" /\ pc'[p] # "create_save" /\ Validate(req[p].doc))
          => /\ nextId' = nextId + 1
             /\ nextId \in DOMAIN invoices'
             /\ invoices'[nextId].user_id = req[p].who]_vars

\* C18 (as claimed): a Pay whose receipt number collides with an existing
\* Receipt draws another number and tries again, so every Pay that has
\* persisted status Paid leaves its receipt save with exactly one Receipt
\* persisted for the invoice; the persisted receipt numbers are pairwise
\* distinct.
C18_ReceiptRetriesOnCollision ==
    [][/\ \A p \in Procs :
            (pc[p] = "pay_receipt" /\ pc'[p] # "pay_receipt")
            => Cardinality({r \in receipts' : r.invoice_id = req[p].inv}) = 1
       /\ \A r, q \in receipts' : r.receipt_number = q.receipt_number => r = q]_vars

\* C19 (as claimed): a user is never deleted while an invoice references it:
\* in every reachable state the user_id of every persisted invoice is the id
\* of a persisted user.
C19_OwnerExists ==
    \A i \in DOMAIN invoices : invoices[i].user_id \in users

\* the invoice of the end-to-end scenario, by the inputs of its Create
Scenario(d) ==
    /\ d.client_name = "Acme"
    /\ d.due_date = 2026
    /\ d.tax_rate = 5
    /\ d.items = <<[description |-> "Service", quantity |-> 2, unit_price |-> 100,
                    total |-> 200]>>

\* OPL-0001-26
Number0001of26 == [seq |-> <<0, 0, 0, 1>>, yy |-> 26]

\* C20: on an empty store the Create of the scenario persists an invoice
\* numbered OPL-0001-26 with amount 210 and status Pending; its Pay persists
\* status Paid and then one Receipt with amount_paid 210; an Edit of it after
\* that is answered 'cannot edit a paid invoice' and changes nothing.
C20_EndToEnd ==
    [][/\ \A i \in (DOMAIN invoices') \ (DOMAIN invoices) :
            (invoices = <<>> /\ Scenario(invoices'[i]))
            => /\ invoices'[i].invoice_number = Number0001of26
               /\ invoices'[i].amount = 210
               /\ invoices'[i].status = "Pending"
       /\ \A p \in Procs :
            (pc[p] = "pay_status" /\ Found(req[p].inv) /\ Scenario(invoices[req[p].inv]))
            => invoices' = Put(invoices, req[p].inv,
                               [invoices[req[p].inv] EXCEPT !.status = "Paid"])
       /\ \A p \in Procs :
            (/\ pc[p] = "pay_receipt"
             /\ pc'[p] # "pay_receipt"
             /\ Found(req[p].inv)
             /\ Scenario(invoices[req[p].inv])
             /\ receipts = {})
            => /\ invoices'[req[p].inv].status = "Paid"
               /\ Cardinality(receipts') = 1
               /\ \A r \in receipts' : r.invoice_id = req[p].inv /\ r.amount_paid = 210
       /\ \A p \in Procs :
            (/\ Takes(p, "edit")
             /\ Scenario(invoices[req'[p].inv])
             /\ invoices[req'[p].inv].status = "Paid"
             /\ OwnerOrAdmin(req'[p].who, req'[p].inv))
            => (Answers(p, "CannotEditPaid") /\ StoreUnchanged)]_vars

\* the scenario has run to its end: the Edit of the paid invoice OPL-0001-26
\* with amount 210 and its one Receipt of 210 was rejected
C20_Witness ==
    \E p \in Procs :
        /\ pc[p] = "respond"
        /\ req[p].op = "edit"
        /\ req[p].code = "CannotEditPaid"
        /\ Found(req[p].inv)
        /\ Scenario(invoices[req[p].inv])
        /\ invoices[req[p].inv].invoice_number = Number0001of26
        /\ invoices[req[p].inv].amount = 210
        /\ invoices[req[p].inv].status = "Paid"
        /\ \E r \in receipts : receipts = {r} /\ r.invoice_id = req[p].inv /\ r.amount_paid = 210

\* process p leaves the save of its Create in this step
LeavesCreateSave(p) == pc[p] = "create_save" /\ pc'[p] # "create_save"

\* C21 (as claimed): when two Creates for the same year both compute their
\* number before either has saved, both compute the same number; the store
\* accepts the first of the two saves, after which the number is held, and
\* rejects the other; a rejected Create persists no invoice.
C21_RacingCreates ==
    [][/\ \A p, q \in Procs :
            (/\ p # q
             /\ pc[p] = "create_save"
             /\ Ready(q) /\ pc'[q] = "create_save"
             /\ req'[q].doc.due_date = req[p].doc.due_date
             /\ req[p].doc.invoice_number = generate_invoice_number(req[p].doc.due_date))
            => req'[q].doc.invoice_number = req[p].doc.invoice_number
       /\ \A p, q \in Procs :
            (/\ p # q
             /\ pc[q] = "create_save"
             /\ LeavesCreateSave(p)
             /\ Validate(req[p].doc) /\ Validate(req[q].doc)
             /\ req[q].doc.invoice_number = req[p].doc.invoice_number)
            => /\ nextId' = nextId + 1
               /\ invoices' = Put(invoices, nextId, req[p].doc)
               /\ ~InsertAccepted(req[q].doc)'
       /\ \A p \in Procs :
            (LeavesCreateSave(p) /\ ~InsertAccepted(req[p].doc))
            => invoices' = invoices]_vars

\* C22 (as claimed): also when an Edit passed its status test before a Pay
\* persisted Paid, no step alters the items, tax_rate, tax_amount or amount of
\* an invoice whose persisted status is Paid: they keep the values they had
\* when the status became Paid.
C22_PaidInvoiceFrozen ==
    [][\A i \in (DOMAIN invoices) \cap (DOMAIN invoices') :
          invoices[i].status = "Paid"
          => /\ invoices'[i].items = invoices[i].items
             /\ invoices'[i].tax_rate = invoices[i].tax_rate
             /\ invoices'[i].tax_amount = invoices[i].tax_amount
             /\ invoices'[i].amount = invoices[i].amount]_vars

\* the fields an Edit may set
EditableFields ==
    {"client_name", "client_email", "client_phone", "client_address", "due_date",
     "tax_rate", "items"}

\* process p ends the save of its Edit with success in this step
EditSucceeds(p) == pc[p] = "edit_save" /\ Answers(p, "Updated")

\* C23 (as claimed): after a successful Edit, web route or API, every field
\* among client name, email, phone, address, due date, tax rate and items that
\* the caller did not supply has the value it had before the Edit.
C23_OmittedFieldsKept ==
    [][\A p \in Procs :
          EditSucceeds(p)
          => \A f \in EditableFields \ req[p].body.keys :
                invoices'[req[p].inv][f] = invoices[req[p].inv][f]]_vars

\* the items that the retained entries of a supplied list make, in their order
ItemsOf(raw) ==
    [k \in 1..Len(Retained(raw)) |->
        MakeItem(Strip(Retained(raw)[k].description), Retained(raw)[k].quantity,
                 Retained(raw)[k].unit_price)]

\* C24 (as claimed): after a successful Edit that supplies items, the item
\* list of the invoice is exactly the retained supplied entries in supplied
\* order, and tax_amount and amount are recomputed from the new items with the
\* supplied tax rate, or with the previous tax rate of the invoice when none
\* is supplied.
C24_ItemsReplaced ==
    [][\A p \in Procs :
          (EditSucceeds(p) /\ "items" \in req[p].body.keys)
          => LET d == invoices'[req[p].inv]
                 rate == IF "tax_rate" \in req[p].body.keys
                         THEN req[p].body.rate ELSE invoices[req[p].inv].tax_rate
             IN  /\ d.items = ItemsOf(req[p].body.raw)
                 /\ d.tax_rate = rate
                 /\ d.tax_amount = TaxAmount(Subtotal(ItemsOf(req[p].body.raw)), rate)
                 /\ d.amount = Subtotal(ItemsOf(req[p].body.raw)) + d.tax_amount]_vars

\* C25: an API Edit that supplies tax_rate and no items leaves the item list
\* as it was and sets tax_amount and amount to what a full recomputation over
\* the current items with the new rate gives; the same Edit applied to the
\* result changes nothing (requests one at a time).
C25_RateOnlyEdit ==
    [][\A p \in Procs :
          (/\ EditSucceeds(p)
           /\ req[p].variant = "api"
           /\ req[p].body.keys = {"tax_rate"})
          => LET d == invoices[req[p].inv]
                 e == invoices'[req[p].inv]
                 rate == req[p].body.rate
                 again == ApiPatched(Load(e), {"tax_rate"}, NoneStr, NoContact, NoDate,
                                     rate, <<>>)
             IN  /\ e.items = d.items
                 /\ e.tax_rate = rate
                 /\ e.tax_amount = TaxAmount(Subtotal(d.items), rate)
                 /\ e.amount = Subtotal(d.items) + TaxAmount(Subtotal(d.items), rate)
                 /\ Changed(Load(e), again) = {}
                 /\ (d.tax_rate = rate /\ d.tax_amount = e.tax_amount /\ d.amount = e.amount)
                      => invoices' = invoices]_vars

\* the API Edit {tax_rate: 10} of the invoice with item Service 2 x 100 was
\* answered: the stored invoice has tax_rate 10, tax_amount 20, amount 220
C25_Witness ==
    \E p \in Procs :
        /\ pc[p] = "respond"
        /\ req[p].op = "edit"
        /\ req[p].variant = "api"
        /\ req[p].code = "Updated"
        /\ req[p].body.keys = {"tax_rate"}
        /\ req[p].body.rate = 10
        /\ Found(req[p].inv)
        /\ Len(invoices[req[p].inv].items) = 1
        /\ invoices[req[p].inv].items[1].total = 200
        /\ invoices[req[p].inv].tax_rate = 10
        /\ invoices[req[p].inv].tax_amount = 20
        /\ invoices[req[p].inv].amount = 220

\* C26 (as claimed): in every reachable state every item of every persisted
\* invoice has total = quantity * unit_price, quantity > 0 and a non-empty
\* description.
C26_ItemsWellFormed ==
    \A i \in DOMAIN invoices :
        \A k \in 1..Len(invoices[i].items) :
            LET item == invoices[i].items[k]
            IN  /\ item.total = item.quantity * item.unit_price
                /\ item.quantity > 0
                /\ item.description # ""

\* process p takes a step of its own
Acts(p) == pc'[p] # pc[p] \/ req'[p] # req[p]

\* C27: no step of an Edit or a Pay, by the owner or by an admin, changes the
\* invoice_number, the user_id or the date_created of an existing invoice or
\* removes an invoice; a step of a Pay changes nothing of an invoice but its
\* status, which it sets to Paid (requests one at a time).
C27_EditPayFrame ==
    [][\A p \in Procs :
          /\ (pc[p] \in {"edit_save", "pay_status", "pay_receipt"} /\ Acts(p))
               => \A i \in DOMAIN invoices :
                     /\ i \in DOMAIN invoices'
                     /\ invoices'[i].invoice_number = invoices[i].invoice_number
                     /\ invoices'[i].user_id = invoices[i].user_id
                     /\ invoices'[i].date_created = invoices[i].date_created
          /\ (pc[p] \in {"pay_status", "pay_receipt"} /\ Acts(p))
               => \A i \in DOMAIN invoices :
                     /\ \A f \in Fields \ {"status"} : invoices'[i][f] = invoices[i][f]
                     /\ invoices'[i].status \in {invoices[i].status, "Paid"}
                     /\ i # req[p].inv => invoices'[i] = invoices[i]]_vars

\* the admin's Pay of an invoice of worker w1 was answered 'paid': the invoice
\* is Paid and still has its number, its owner, its creation time 2, its
\* contact fields and its amount
C27_Witness ==
    \E p \in Procs :
        /\ pc[p] = "respond"
        /\ req[p].op = "pay"
        /\ req[p].code = "Paid"
        /\ req[p].who = Admin
        /\ Found(req[p].inv)
        /\ invoices[req[p].inv].status = "Paid"
        /\ invoices[req[p].inv].user_id = "w1"
        /\ invoices[req[p].inv].date_created = 2
        /\ invoices[req[p].inv].invoice_number = Number0001of26
        /\ invoices[req[p].inv].client_email = FullContact.email
        /\ invoices[req[p].inv].tax_rate = 10
        /\ invoices[req[p].inv].amount = 220

\* C28 (as claimed): in every reachable state the invoice_id of every Receipt
\* is the id of a persisted invoice, also when a Delete passed its status test
\* before a concurrent Pay of the same invoice persisted Paid and its Receipt.
C28_ReceiptHasInvoice ==
    \A r \in receipts : r.invoice_id \in DOMAIN invoices

\* C29 (as claimed): an Edit that supplies items of which none survives the
\* filtering (an empty list included) is answered with an error and leaves
\* the invoice as it was; after any sequence of Creates and Edits every
\* persisted invoice has at least one item.
C29_EditKeepsAnItem ==
    [][/\ \A p \in Procs :
            (/\ pc[p] = "edit_save"
             /\ Acts(p)
             /\ "items" \in req[p].body.keys
             /\ Retained(req[p].body.raw) = <<>>)
            => (req'[p].code \in ErrorCodes /\ invoices' = invoices)
       /\ \A i \in DOMAIN invoices' : invoices'[i].items # <<>>]_vars

\* C30 (as claimed): after any sequence of Creates and Deletes of Pending
\* invoices, one request at a time, the number the next Create computes for a
\* year (1 + the count of the invoices of that year) is held by no persisted
\* invoice, so the unique index does not reject the save of that Create.
C30_NextNumberFree ==
    \A y \in Years : ~NumberTaken(generate_invoice_number(y))
==========================================================================
